---- MODULE Spec2Model ----
(***************************************************************************)
(* Model of generate_server.js: the pipeline                               *)
(*   generateServer = validateConfig -> parseNodes -> generateServerCode   *)
(*                    -> fs.writeFileSync                                  *)
(* over a graph document { nodes: [...] }.                                 *)
(*                                                                         *)
(* JavaScript values of the interpreted property fields are written as     *)
(* strings: "undefined" (field absent), "null", "false", "true", and, for  *)
(* string fields, the string itself ("" is the empty string).              *)
(* Node ids are integers standing for the id strings "0", "1", "2", ...    *)
(* The emitted text is a sequence of lines, each line a sequence of        *)
(* tokens, so that two texts are equal exactly when line by line and       *)
(* token by token they are.                                                *)
(***************************************************************************)
EXTENDS Integers, Sequences, FiniteSets, TLC

VARIABLES config, pc, error, parsedConfig, serverCode, outFile, run, lastModel

vars == <<config, pc, error, parsedConfig, serverCode, outFile, run, lastModel>>

\* ------------------------------------------------------------------ bounds
MaxNodes == 3     \* longest node sequence of a document
MaxBody == 3      \* nodes after the entry node in the admin-edge documents
MaxId == 2        \* node ids 1..MaxId in the admin-edge documents
MaxRuns == 2      \* calls of generateServer made by one process

\* --------------------------------------------------------------- JS values
Falsy == {"undefined", "null", "false", ""}

Truthy(v) == v \notin Falsy

\* properties.allowed_origins: absent, a string, or an array of strings
NoOrigins == [kind |-> "undefined", items |-> <<>>]

OriginString(s) == [kind |-> "string", items |-> <<s>>]

OriginArray(items) == [kind |-> "array", items |-> items]

\* an array is truthy even when empty; a string is truthy unless empty
OriginsTruthy(o) ==
  \/ o.kind = "array"
  \/ o.kind = "string" /\ Truthy(o.items[1])

\* node.target: null, one id, or an array of ids
NoTarget == [kind |-> "null", ids |-> <<>>]

TargetOne(i) == [kind |-> "string", ids |-> <<i>>]

TargetList(ids) == [kind |-> "array", ids |-> ids]

TargetTruthy(t) == t.kind # "null"

SeqContains(s, x) == \E i \in 1..Len(s) : s[i] = x

\* --------------------------------------------------------------- documents
DefaultProps ==
  [type |-> "undefined", endpoint |-> "undefined", method |-> "undefined",
   auth_required |-> "undefined", admin_required |-> "undefined",
   allowed_origins |-> NoOrigins, log_requests |-> "undefined"]

\* a node without a properties field
BareNode(id) ==
  [id |-> id, target |-> NoTarget, hasProps |-> FALSE, properties |-> DefaultProps]

PropNode(id, target, props) ==
  [id |-> id, target |-> target, hasProps |-> TRUE, properties |-> props]

EntryNode(id) == PropNode(id, NoTarget, [DefaultProps EXCEPT !.type = "entry"])

\* ids "1", "2", ... in document order
NumberNodes(nodes) == [i \in 1..Len(nodes) |-> [nodes[i] EXCEPT !.id = i]]

SeqsUpTo(S, n) == UNION {[1..k -> S] : k \in 0..n}

ArrayDoc(nodes) == [nodesKind |-> "array", nodes |-> nodes]

\* documents whose `nodes` is absent, null, or a truthy non-array
MalformedDocs ==
  {[nodesKind |-> k, nodes |-> <<>>] : k \in {"undefined", "null", "string"}}

\* ---------------------------------------------------------- validateConfig
IsEntry(node) == node.hasProps /\ node.properties.type = "entry"

\* mutant: the entry-node check is missing
ValidateConfig_NoEntryCheck(cfg) ==
  IF cfg.nodesKind # "array" THEN "nodes array is required" ELSE "ok"

\* mutant: a second entry node is rejected
ValidateConfig_SingleEntry(cfg) ==
  IF cfg.nodesKind # "array"
  THEN "nodes array is required"
  ELSE IF Cardinality({i \in 1..Len(cfg.nodes) : IsEntry(cfg.nodes[i])}) = 1
       THEN "ok"
       ELSE "entry node is required"

\* "ok", or the message of the Error thrown
ValidateConfig(cfg) ==
  IF cfg.nodesKind # "array"
  THEN "nodes array is required"
  ELSE IF \E i \in 1..Len(cfg.nodes) : IsEntry(cfg.nodes[i])
       THEN "ok"
       ELSE "entry node is required"

\* -------------------------------------------------------------- parseNodes
\* mutant: `result` is shared by all calls instead of built anew
NewResult_Shared == parsedConfig

NewResult ==
  [cors |-> [enabled |-> FALSE, origin |-> NoOrigins],
   auth |-> [enabled |-> FALSE, routes |-> <<>>],
   adminAuth |-> [enabled |-> FALSE, routes |-> <<>>],
   logging |-> [enabled |-> FALSE],
   routes |-> <<>>]

IsMiddleware(node) == node.hasProps /\ node.properties.type = "middleware"

\* mutant: authRequired is the truthiness of auth_required, so absent means false
AuthRequiredOf_OptIn(props) == Truthy(props.auth_required)

AuthRequiredOf(props) == props.auth_required # "false"

AdminRequiredOf(props) == Truthy(props.admin_required)

MethodOf(props) == IF Truthy(props.method) THEN props.method ELSE "GET"

RouteRecord(node) ==
  [id |-> node.id,
   endpoint |-> node.properties.endpoint,
   method |-> MethodOf(node.properties),
   authRequired |-> AuthRequiredOf(node.properties),
   adminRequired |-> AdminRequiredOf(node.properties)]

\* mutant: the first CORS-declaring middleware node wins
ClassifyMiddleware_FirstOrigin(result, props) ==
  [result EXCEPT
     !.cors = IF OriginsTruthy(props.allowed_origins) /\ ~result.cors.enabled
              THEN [enabled |-> TRUE, origin |-> props.allowed_origins]
              ELSE @,
     !.auth.enabled = @ \/ Truthy(props.auth_required),
     !.adminAuth.enabled = @ \/ Truthy(props.admin_required),
     !.logging.enabled = @ \/ Truthy(props.log_requests)]

ClassifyMiddleware(result, props) ==
  [result EXCEPT
     !.cors = IF OriginsTruthy(props.allowed_origins)
              THEN [enabled |-> TRUE, origin |-> props.allowed_origins]
              ELSE @,
     !.auth.enabled = @ \/ Truthy(props.auth_required),
     !.adminAuth.enabled = @ \/ Truthy(props.admin_required),
     !.logging.enabled = @ \/ Truthy(props.log_requests)]

\* mutant: a new route is put in front of the routes found so far
ClassifyNode_Unshift(result, node) ==
  IF ~node.hasProps THEN result
  ELSE IF node.properties.type = "middleware"
       THEN ClassifyMiddleware(result, node.properties)
       ELSE IF Truthy(node.properties.endpoint)
            THEN [result EXCEPT !.routes = <<RouteRecord(node)>> \o @]
            ELSE result

ClassifyNode(result, node) ==
  IF ~node.hasProps THEN result
  ELSE IF node.properties.type = "middleware"
       THEN ClassifyMiddleware(result, node.properties)
       ELSE IF Truthy(node.properties.endpoint)
            THEN [result EXCEPT !.routes = Append(@, RouteRecord(node))]
            ELSE result

RECURSIVE FirstPass(_, _)
FirstPass(result, nodes) ==
  IF nodes = <<>> THEN result
  ELSE FirstPass(ClassifyNode(result, Head(nodes)), Tail(nodes))

\* Array.prototype.find / findIndex: index of the first match, 0 when none
FirstNodeWithId(nodes, id) ==
  IF \E i \in 1..Len(nodes) : nodes[i].id = id
  THEN CHOOSE i \in 1..Len(nodes) :
         nodes[i].id = id /\ \A j \in 1..(i - 1) : nodes[j].id # id
  ELSE 0

FirstRouteWithId(routes, id) ==
  IF \E i \in 1..Len(routes) : routes[i].id = id
  THEN CHOOSE i \in 1..Len(routes) :
         routes[i].id = id /\ \A j \in 1..(i - 1) : routes[j].id # id
  ELSE 0

IsAdminMiddleware(node) ==
  IsMiddleware(node) /\ Truthy(node.properties.admin_required)

\* mutant: a target that is a single id is not wrapped into a list
TargetIds_ArrayOnly(target) == IF target.kind = "array" THEN target.ids ELSE <<>>

\* Array.isArray(node.target) ? node.target : [node.target]
TargetIds(target) == target.ids

MarkTarget(result, targetId, nodes) ==
  LET t == FirstNodeWithId(nodes, targetId) IN
  IF t # 0 /\ nodes[t].hasProps /\ Truthy(nodes[t].properties.endpoint)
  THEN LET r == FirstRouteWithId(result.routes, targetId) IN
       IF r # 0
       THEN [result EXCEPT
               !.routes[r].adminRequired = TRUE,
               !.adminAuth.routes = Append(@, result.routes[r].endpoint)]
       ELSE result
  ELSE result

RECURSIVE MarkTargets(_, _, _)
MarkTargets(result, targetIds, nodes) ==
  IF targetIds = <<>> THEN result
  ELSE MarkTargets(MarkTarget(result, Head(targetIds), nodes), Tail(targetIds), nodes)

\* mutant: every middleware node with a target propagates, admin or not
PropagateAdmin_AnyMiddleware(result, node, nodes) ==
  IF IsMiddleware(node) /\ TargetTruthy(node.target)
  THEN MarkTargets(result, TargetIds(node.target), nodes)
  ELSE result

PropagateAdmin(result, node, nodes) ==
  IF IsAdminMiddleware(node) /\ TargetTruthy(node.target)
  THEN MarkTargets(result, TargetIds(node.target), nodes)
  ELSE result

RECURSIVE SecondPass(_, _, _)
SecondPass(result, rest, nodes) ==
  IF rest = <<>> THEN result
  ELSE SecondPass(PropagateAdmin(result, Head(rest), nodes), Tail(rest), nodes)

ParseNodes(nodes) == SecondPass(FirstPass(NewResult, nodes), nodes, nodes)

\* ------------------------------------------------------ generateServerCode
\* String.prototype.toLowerCase on the method names the documents use
ToLowerCase(s) ==
  CASE s = "GET" -> "get"
    [] s = "POST" -> "post"
    [] OTHER -> s

\* endpoint.startsWith('/') ? endpoint.substring(1) : endpoint
RouteName(endpoint) ==
  CASE endpoint = "/login" -> "login"
    [] endpoint = "/user" -> "user"
    [] endpoint = "/admin" -> "admin"
    [] endpoint = "/home" -> "home"
    [] endpoint = "/items" -> "items"
    [] OTHER -> endpoint

\* routeName.charAt(0).toUpperCase() + routeName.slice(1)
Capitalize(name) ==
  CASE name = "items" -> "Items"
    [] OTHER -> name

GenerateRouteMessage(endpoint) ==
  LET routeName == RouteName(endpoint) IN
  CASE routeName = "login" -> <<"Login successful">>
    [] routeName = "signup" -> <<"Signup successful">>
    [] routeName = "signout" -> <<"Signout successful">>
    [] routeName = "user" -> <<"User data">>
    [] routeName = "admin" -> <<"Admin data">>
    [] routeName = "home" -> <<"Welcome to Home Page">>
    [] routeName = "about" -> <<"About us">>
    [] routeName = "news" -> <<"Latest news">>
    [] routeName = "blogs" -> <<"Blogs list">>
    [] OTHER -> <<Capitalize(routeName), " resource">>

\* JSON.stringify of a string: the string between double quotes
JsonString(s) == <<"\"", s, "\"">>

RECURSIVE JsonItems(_)
JsonItems(items) ==
  IF items = <<>> THEN <<>>
  ELSE IF Len(items) = 1 THEN JsonString(items[1])
       ELSE JsonString(items[1]) \o <<",">> \o JsonItems(Tail(items))

\* JSON.stringify of cors.options.origin
JsonStringify(o) ==
  IF o.kind = "array" THEN <<"[">> \o JsonItems(o.items) \o <<"]">>
  ELSE JsonString(o.items[1])

OriginText(o) ==
  IF o.kind = "array" /\ SeqContains(o.items, "*")
  THEN <<"\"", "*", "\"">>
  ELSE JsonStringify(o)

RequireExpressLine == <<"const express = require(\"express\");">>

RequireCorsLine == <<"const cors = require(\"cors\");">>

AppLine == <<"const app = express();">>

UseCorsLine(cors) == <<"app.use(cors({ origin: ">> \o OriginText(cors.origin) \o <<" }));">>

UseJsonLine == <<"app.use(express.json());">>

AuthDefLine == <<"const authMiddleware = ", "401 Unauthorized">>

AdminDefLine == <<"const adminMiddleware = ", "403 Forbidden">>

LoggingDefLine == <<"const loggingMiddleware = ", "console.log">>

ListenLine == <<"app.listen(3000, ...);">>

CorsImport(cors) == IF cors.enabled THEN <<RequireCorsLine>> ELSE <<>>

CorsUse(cors) == IF cors.enabled THEN <<UseCorsLine(cors)>> ELSE <<>>

MiddlewareDefs(auth, adminAuth, logging) ==
  (IF auth.enabled THEN <<AuthDefLine>> ELSE <<>>)
  \o (IF adminAuth.enabled THEN <<AdminDefLine>> ELSE <<>>)
  \o (IF logging.enabled THEN <<LoggingDefLine>> ELSE <<>>)

\* mutant: logging is attached ahead of the admin check
RouteMiddlewares_LoggingFirst(route, auth, adminAuth, logging) ==
  (IF route.authRequired /\ auth.enabled THEN <<"authMiddleware">> ELSE <<>>)
  \o (IF logging.enabled THEN <<"loggingMiddleware">> ELSE <<>>)
  \o (IF route.adminRequired /\ adminAuth.enabled THEN <<"adminMiddleware">> ELSE <<>>)

\* mutant: the per-route flags alone decide, whether or not a definition exists
RouteMiddlewares_Unguarded(route, auth, adminAuth, logging) ==
  (IF route.authRequired THEN <<"authMiddleware">> ELSE <<>>)
  \o (IF route.adminRequired THEN <<"adminMiddleware">> ELSE <<>>)
  \o (IF logging.enabled THEN <<"loggingMiddleware">> ELSE <<>>)

\* the `middlewares` array built for one route
RouteMiddlewares(route, auth, adminAuth, logging) ==
  (IF route.authRequired /\ auth.enabled THEN <<"authMiddleware">> ELSE <<>>)
  \o (IF route.adminRequired /\ adminAuth.enabled THEN <<"adminMiddleware">> ELSE <<>>)
  \o (IF logging.enabled THEN <<"loggingMiddleware">> ELSE <<>>)

RouteLine(route, auth, adminAuth, logging) ==
  <<"app.", ToLowerCase(route.method), route.endpoint>>
  \o RouteMiddlewares(route, auth, adminAuth, logging)
  \o <<"(req, res) => res.json">>
  \o GenerateRouteMessage(route.endpoint)

RouteLines(routes, auth, adminAuth, logging) ==
  [k \in 1..Len(routes) |-> RouteLine(routes[k], auth, adminAuth, logging)]

GenerateServerCode(parsed) ==
  <<RequireExpressLine>>
  \o CorsImport(parsed.cors)
  \o <<AppLine>>
  \o CorsUse(parsed.cors)
  \o <<UseJsonLine>>
  \o MiddlewareDefs(parsed.auth, parsed.adminAuth, parsed.logging)
  \o RouteLines(parsed.routes, parsed.auth, parsed.adminAuth, parsed.logging)
  \o <<ListenLine>>

\* ------------------------------------------------------------ generateServer
NoFile == [exists |-> FALSE, content |-> <<>>]

\* the state before any model has been built
NoModel ==
  [cors |-> [enabled |-> FALSE, origin |-> NoOrigins],
   auth |-> [enabled |-> FALSE, routes |-> <<>>],
   adminAuth |-> [enabled |-> FALSE, routes |-> <<>>],
   logging |-> [enabled |-> FALSE],
   routes |-> <<>>]

InitWith(Docs) ==
  /\ config \in Docs
  /\ pc = "start"
  /\ error = "none"
  /\ parsedConfig = NoModel
  /\ serverCode = <<>>
  /\ outFile = NoFile
  /\ run = 1
  /\ lastModel = NoModel

\* validateConfig(config) returns
ValidateOk ==
  /\ pc = "start"
  /\ ValidateConfig(config) = "ok"
  /\ pc' = "validated"
  /\ UNCHANGED <<config, error, parsedConfig, serverCode, outFile, run, lastModel>>

\* validateConfig(config) throws: the catch block reports and the process exits
ValidateFail ==
  /\ pc = "start"
  /\ ValidateConfig(config) # "ok"
  /\ error' = ValidateConfig(config)
  /\ pc' = "exited"
  /\ UNCHANGED <<config, parsedConfig, serverCode, outFile, run, lastModel>>

Parse ==
  /\ pc = "validated"
  /\ parsedConfig' = ParseNodes(config.nodes)
  /\ pc' = "parsed"
  /\ UNCHANGED <<config, error, serverCode, outFile, run, lastModel>>

Generate ==
  /\ pc = "parsed"
  /\ serverCode' = GenerateServerCode(parsedConfig)
  /\ pc' = "generated"
  /\ UNCHANGED <<config, error, parsedConfig, outFile, run, lastModel>>

WriteFile ==
  /\ pc = "generated"
  /\ outFile' = [exists |-> TRUE, content |-> serverCode]
  /\ pc' = "written"
  /\ UNCHANGED <<config, error, parsedConfig, serverCode, run, lastModel>>

\* the library caller calls generateServer again on the same document
CallAgain ==
  /\ pc = "written"
  /\ run < MaxRuns
  /\ run' = run + 1
  /\ lastModel' = parsedConfig
  /\ pc' = "start"
  /\ UNCHANGED <<config, error, parsedConfig, serverCode, outFile>>

Next ==
  \/ ValidateOk
  \/ ValidateFail
  \/ Parse
  \/ Generate
  \/ WriteFile
  \/ CallAgain

\* ------------------------------------------------- documents: shape and flags
FlagMiddleware(a, d, l) ==
  PropNode(0, NoTarget,
    [DefaultProps EXCEPT !.type = "middleware",
                         !.auth_required = a, !.admin_required = d,
                         !.log_requests = l])

FlagRoute(a, d) ==
  PropNode(0, NoTarget,
    [DefaultProps EXCEPT !.endpoint = "/admin", !.auth_required = a,
                         !.admin_required = d])

FlagNodes ==
  {BareNode(0), EntryNode(0)}
  \cup {FlagMiddleware(a, d, l) : a \in {"undefined", "true"},
                                  d \in {"undefined", "true"},
                                  l \in {"undefined", "true"}}
  \cup {FlagRoute(a, d) : a \in {"undefined", "false"}, d \in {"undefined", "true"}}

FlagDocs ==
  MalformedDocs
  \cup {ArrayDoc(NumberNodes(s)) : s \in SeqsUpTo(FlagNodes, MaxNodes)}

Init == InitWith(FlagDocs)

Spec == Init /\ [][Next]_vars

\* ------------------------------------------------ documents: route detection
ShapedNode(t, e) ==
  PropNode(0, NoTarget, [DefaultProps EXCEPT !.type = t, !.endpoint = e])

RouteShapeNodes ==
  {BareNode(0)}
  \cup {ShapedNode(t, e) : t \in {"undefined", "middleware", "entry"},
                          e \in {"undefined", "", "/user", "/home"}}

RouteDocs ==
  {ArrayDoc(NumberNodes(s)) : s \in SeqsUpTo(RouteShapeNodes, MaxNodes)}

InitRoutes == InitWith(RouteDocs)

SpecRoutes == InitRoutes /\ [][Next]_vars

\* --------------------------------------------- documents: auth_required values
AuthRoute(a) ==
  PropNode(0, NoTarget,
    [DefaultProps EXCEPT !.endpoint = "/user", !.method = "POST", !.auth_required = a])

\* an admin middleware whose target lists every position of the document
AdminOverAll ==
  PropNode(0, TargetList([i \in 1..MaxNodes |-> i]),
    [DefaultProps EXCEPT !.type = "middleware", !.admin_required = "true"])

AuthNodes ==
  {EntryNode(0), FlagMiddleware("true", "undefined", "undefined"), AdminOverAll}
  \cup {AuthRoute(a) : a \in {"undefined", "null", "false", "true"}}

AuthDocs ==
  {ArrayDoc(NumberNodes(s)) : s \in SeqsUpTo(AuthNodes, MaxNodes)}

InitAuth == InitWith(AuthDocs)

SpecAuth == InitAuth /\ [][Next]_vars

\* ------------------------------------------------------- documents: CORS
CorsMiddleware(items) ==
  PropNode(0, NoTarget,
    [DefaultProps EXCEPT !.type = "middleware",
                         !.allowed_origins = OriginArray(items)])

\* a route node that carries allowed_origins: not a middleware node
CorsOnRoute ==
  PropNode(0, NoTarget,
    [DefaultProps EXCEPT !.endpoint = "/items",
                         !.allowed_origins = OriginArray(<<"http://a">>)])

OriginLists ==
  {<<>>, <<"*">>, <<"http://a">>, <<"http://a", "http://b">>, <<"http://a", "*">>}

\* allowed_origins given as the bare string "*" instead of a list
CorsWildcardString ==
  PropNode(0, NoTarget,
    [DefaultProps EXCEPT !.type = "middleware",
                         !.allowed_origins = OriginString("*")])

CorsNodes ==
  {EntryNode(0), FlagMiddleware("undefined", "undefined", "true"), CorsOnRoute,
   CorsWildcardString}
  \cup {CorsMiddleware(items) : items \in OriginLists}

CorsDocs ==
  {ArrayDoc(NumberNodes(s)) : s \in SeqsUpTo(CorsNodes, MaxNodes)}

InitCors == InitWith(CorsDocs)

SpecCors == InitCors /\ [][Next]_vars

\* ------------------------------------------------- documents: admin edges
\* ids are drawn freely from 1..MaxId, so two nodes may carry the same id and a
\* target may name an id no node carries; the entry node has id 0 and comes first
EdgeMiddleware(id, d, t) ==
  PropNode(id, t, [DefaultProps EXCEPT !.type = "middleware", !.admin_required = d])

EdgeRoute(id, d) ==
  PropNode(id, NoTarget,
    [DefaultProps EXCEPT !.endpoint = "/items", !.admin_required = d])

AdminTargets ==
  {NoTarget, TargetList([i \in 1..MaxId |-> i])}
  \cup {TargetOne(i) : i \in 1..MaxId}

\* a middleware node that also carries an endpoint: never a route
EndpointMiddleware ==
  PropNode(1, NoTarget,
    [DefaultProps EXCEPT !.type = "middleware", !.endpoint = "/admin"])

EdgeNodes ==
  {EdgeMiddleware(1, "true", t) : t \in AdminTargets}
  \cup {EdgeMiddleware(i, "undefined", TargetOne((i % MaxId) + 1)) : i \in 1..MaxId}
  \cup {EdgeRoute(i, d) : i \in 1..MaxId, d \in {"undefined", "true"}}
  \cup {EdgeRoute(MaxId, "false"), EndpointMiddleware}

EdgeDocs ==
  {ArrayDoc(<<>>)}
  \cup {ArrayDoc(<<EntryNode(0)>> \o s) : s \in SeqsUpTo(EdgeNodes, MaxBody)}

InitAdmin == InitWith(EdgeDocs)

SpecAdmin == InitAdmin /\ [][Next]_vars

\* ============================================================== properties
Nodes == config.nodes

AfterParse == pc \in {"parsed", "generated", "written"}

AfterGenerate == pc \in {"generated", "written"}

\* the members of the set S of positions, in document order
Ascending(S) == SelectSeq([i \in 1..Len(Nodes) |-> i], LAMBDA i : i \in S)

\* a node that is not a middleware node and has a truthy endpoint
IsRouteNode(node) ==
  /\ node.hasProps
  /\ node.properties.type # "middleware"
  /\ Truthy(node.properties.endpoint)

RoutePositions == Ascending({i \in 1..Len(Nodes) : IsRouteNode(Nodes[i])})

\* the route registrations of the emitted text, in text order
IsRegistration(line) == line[1] = "app."

Registrations == SelectSeq(serverCode, IsRegistration)

MiddlewareNames == {"authMiddleware", "adminMiddleware", "loggingMiddleware"}

Attached(line) == SelectSeq(line, LAMBDA t : t \in MiddlewareNames)

IsSubSeqOfFixedOrder(s) ==
  s \in {<<>>, <<"authMiddleware">>, <<"adminMiddleware">>, <<"loggingMiddleware">>,
         <<"authMiddleware", "adminMiddleware">>,
         <<"authMiddleware", "loggingMiddleware">>,
         <<"adminMiddleware", "loggingMiddleware">>,
         <<"authMiddleware", "adminMiddleware", "loggingMiddleware">>}

EntryCount == Cardinality({i \in 1..Len(Nodes) : IsEntry(Nodes[i])})

\* ---------------------------------------------------------------------- C1
\* C1: a document without `nodes`, with a non-array `nodes`, or without an
\* entry node makes generateServer fail in validateConfig with the matching
\* error; parseNodes and generateServerCode never run and no file is written.
C1_FailFast ==
  (config.nodesKind # "array" \/ EntryCount = 0) =>
    /\ pc \in {"start", "exited"}
    /\ parsedConfig = NoModel
    /\ serverCode = <<>>
    /\ ~outFile.exists
    /\ pc = "exited" =>
         error = IF config.nodesKind # "array"
                 THEN "nodes array is required"
                 ELSE "entry node is required"

C1_Witness ==
  /\ pc = "exited"
  /\ error = "entry node is required"
  /\ \E i \in 1..Len(Nodes) : IsRouteNode(Nodes[i])
  /\ ~outFile.exists

\* ---------------------------------------------------------------------- C2
\* C2 as stated: validateConfig accepts a document exactly when `nodes` is an
\* array holding exactly one entry node.
C2_ExactlyOneEntry ==
  pc # "start" =>
    (pc # "exited" <=> (config.nodesKind = "array" /\ EntryCount = 1))

\* C2 amended: validateConfig accepts a document exactly when `nodes` is an
\* array holding at least one entry node; two or more entry nodes are accepted.
C2_AtLeastOneEntry ==
  pc # "start" =>
    (pc # "exited" <=> (config.nodesKind = "array" /\ EntryCount >= 1))

C2_Witness == pc = "validated" /\ EntryCount = 2

\* ---------------------------------------------------------------------- C6
\* C6 as stated: each registration attaches authMiddleware iff the route's
\* authRequired is true, adminMiddleware iff its adminRequired is true and
\* loggingMiddleware iff logging.enabled, in that order.
C6_AsClaimed ==
  AfterGenerate =>
    /\ Len(Registrations) = Len(parsedConfig.routes)
    /\ \A k \in 1..Len(Registrations) :
         LET att == Attached(Registrations[k])
             r == parsedConfig.routes[k]
         IN /\ IsSubSeqOfFixedOrder(att)
            /\ SeqContains(att, "authMiddleware") <=> r.authRequired
            /\ SeqContains(att, "adminMiddleware") <=> r.adminRequired
            /\ SeqContains(att, "loggingMiddleware") <=> parsedConfig.logging.enabled

\* C6 amended: each registration attaches, in the fixed order authMiddleware,
\* adminMiddleware, loggingMiddleware: authMiddleware iff the route's
\* authRequired is true and auth.enabled, adminMiddleware iff its adminRequired
\* is true and adminAuth.enabled, loggingMiddleware iff logging.enabled.
C6_MiddlewareOrder ==
  AfterGenerate =>
    /\ Len(Registrations) = Len(parsedConfig.routes)
    /\ \A k \in 1..Len(Registrations) :
         LET att == Attached(Registrations[k])
             r == parsedConfig.routes[k]
         IN /\ IsSubSeqOfFixedOrder(att)
            /\ SeqContains(att, "authMiddleware")
                 <=> (r.authRequired /\ parsedConfig.auth.enabled)
            /\ SeqContains(att, "adminMiddleware")
                 <=> (r.adminRequired /\ parsedConfig.adminAuth.enabled)
            /\ SeqContains(att, "loggingMiddleware") <=> parsedConfig.logging.enabled

C6_Witness ==
  /\ AfterGenerate
  /\ \E k \in 1..Len(Registrations) :
       Attached(Registrations[k])
         = <<"authMiddleware", "adminMiddleware", "loggingMiddleware">>

DefinedBefore(i, defLine) == \E j \in 1..(i - 1) : serverCode[j] = defLine

NoAuthMiddlewareNode ==
  \A i \in 1..Len(Nodes) :
    ~(IsMiddleware(Nodes[i]) /\ Truthy(Nodes[i].properties.auth_required))

NoAdminMiddlewareNode ==
  \A i \in 1..Len(Nodes) :
    ~(IsMiddleware(Nodes[i]) /\ Truthy(Nodes[i].properties.admin_required))

C10_OnlyDefinedNames ==
  AfterGenerate =>
    /\ \A i \in 1..Len(serverCode) :
         IsRegistration(serverCode[i]) =>
           /\ SeqContains(serverCode[i], "authMiddleware")
                => DefinedBefore(i, AuthDefLine)
           /\ SeqContains(serverCode[i], "adminMiddleware")
                => DefinedBefore(i, AdminDefLine)
           /\ SeqContains(serverCode[i], "loggingMiddleware")
                => DefinedBefore(i, LoggingDefLine)
    /\ Len(Registrations) = Len(parsedConfig.routes)
    /\ \A k \in 1..Len(Registrations) :
         /\ (parsedConfig.routes[k].authRequired /\ NoAuthMiddlewareNode)
              => ~SeqContains(Registrations[k], "authMiddleware")
         /\ (parsedConfig.routes[k].adminRequired /\ NoAdminMiddlewareNode)
              => ~SeqContains(Registrations[k], "adminMiddleware")

C10_Witness ==
  /\ AfterGenerate
  /\ NoAuthMiddlewareNode
  /\ NoAdminMiddlewareNode
  /\ \E k \in 1..Len(Registrations) :
       /\ parsedConfig.routes[k].authRequired
       /\ parsedConfig.routes[k].adminRequired
       /\ Attached(Registrations[k]) = <<>>

\* ---------------------------------------------------------------------- C3
\* a node with properties.endpoint present, whatever its type
HasEndpointField(node) == node.hasProps /\ node.properties.endpoint # "undefined"

\* the routes of the model and the registrations of the text are, in order,
\* the nodes at the positions `pos`
RoutesAre(pos) ==
  /\ AfterParse =>
       /\ Len(parsedConfig.routes) = Len(pos)
       /\ \A k \in 1..Len(pos) :
            /\ parsedConfig.routes[k].id = Nodes[pos[k]].id
            /\ parsedConfig.routes[k].endpoint = Nodes[pos[k]].properties.endpoint
  /\ AfterGenerate =>
       /\ Len(Registrations) = Len(pos)
       /\ \A k \in 1..Len(pos) :
            Registrations[k][3] = Nodes[pos[k]].properties.endpoint

\* C3 as stated: the routes and the registrations correspond one to one, in
\* document order, to the nodes that have properties.endpoint present,
\* whatever their type.
C3_EveryEndpointNode ==
  RoutesAre(Ascending({i \in 1..Len(Nodes) : HasEndpointField(Nodes[i])}))

\* C3 amended: the routes and the registrations correspond one to one, in
\* document order, to the nodes whose type is not "middleware" and whose
\* properties.endpoint is present and truthy (a non-empty string).
C3_RouteNodesInOrder == RoutesAre(RoutePositions)

C3_Witness ==
  /\ AfterGenerate
  /\ Len(Registrations) = 2
  /\ Registrations[1][3] # Registrations[2][3]
  /\ Nodes[RoutePositions[1]].properties.type = "entry"

\* ---------------------------------------------------------------------- C5
\* C5: a route's authRequired is false exactly when its node's auth_required
\* is the boolean false, and true otherwise (absent included); the second
\* pass of parseNodes leaves it so.
C5_SecureByDefault ==
  AfterParse =>
    /\ Len(parsedConfig.routes) = Len(RoutePositions)
    /\ \A k \in 1..Len(RoutePositions) :
         parsedConfig.routes[k].authRequired
           = (Nodes[RoutePositions[k]].properties.auth_required # "false")

C5_Witness ==
  /\ pc = "parsed"
  /\ \E k \in 1..Len(RoutePositions) :
       /\ Nodes[RoutePositions[k]].properties.auth_required = "undefined"
       /\ parsedConfig.routes[k].authRequired
       /\ ~Truthy(Nodes[RoutePositions[k]].properties.admin_required)
       /\ parsedConfig.routes[k].adminRequired

\* ---------------------------------------------------------------------- C7
DeclaresOrigins(node) ==
  IsMiddleware(node) /\ node.properties.allowed_origins.kind # "undefined"

CorsPositions == Ascending({i \in 1..Len(Nodes) : DeclaresOrigins(Nodes[i])})

IsCorsUse(line) == line[1] = "app.use(cors({ origin: "

CorsUses == SelectSeq(serverCode, IsCorsUse)

Punctuation == {"app.use(cors({ origin: ", " }));", "[", "]", ",", "\""}

Literals(line) == SelectSeq(line, LAMBDA t : t \notin Punctuation)

\* C7: the CORS import and the CORS registration are emitted iff some
\* middleware node declares allowed_origins; the registration renders the bare
\* "*" when the origins of the last such node are or contain "*", and the
\* bracketed list of those origins otherwise.
C7_CorsRendering ==
  AfterGenerate =>
    /\ SeqContains(serverCode, RequireCorsLine) <=> CorsPositions # <<>>
    /\ Len(CorsUses) = IF CorsPositions # <<>> THEN 1 ELSE 0
    /\ CorsPositions # <<>> =>
         LET last == CorsPositions[Len(CorsPositions)]
             items == Nodes[last].properties.allowed_origins.items
             line == CorsUses[1]
         IN IF SeqContains(items, "*")
            THEN line = <<"app.use(cors({ origin: ", "\"", "*", "\"", " }));">>
            ELSE /\ line[2] = "["
                 /\ line[Len(line) - 1] = "]"
                 /\ Literals(line) = items

C7_Witness ==
  /\ AfterGenerate
  /\ Len(CorsPositions) = 2
  /\ SeqContains(Nodes[CorsPositions[1]].properties.allowed_origins.items, "*")
  /\ Literals(CorsUses[1]) = <<"http://a", "http://b">>

\* ---------------------------------------------------------------------- C4
OwnAdmin(k) == Truthy(Nodes[RoutePositions[k]].properties.admin_required)

\* some admin middleware node lists id in its target
AdminTargeted(id) ==
  \E m \in 1..Len(Nodes) :
    /\ IsAdminMiddleware(Nodes[m])
    /\ TargetTruthy(Nodes[m].target)
    /\ SeqContains(Nodes[m].target.ids, id)

FirstWithItsId(i) == \A j \in 1..(i - 1) : Nodes[j].id # Nodes[i].id

\* C4 as stated: a route whose own admin_required was true, or whose id is in
\* the target of an admin middleware node, ends with adminRequired = true.
C4_AdminForEveryTarget ==
  AfterParse =>
    /\ Len(parsedConfig.routes) = Len(RoutePositions)
    /\ \A k \in 1..Len(RoutePositions) :
         (OwnAdmin(k) \/ AdminTargeted(parsedConfig.routes[k].id))
           => parsedConfig.routes[k].adminRequired

\* C4 amended: a route whose own admin_required was true, or whose id is in
\* the target of an admin middleware node and whose node is the first node of
\* the document with that id, ends with adminRequired = true, wherever the
\* middleware node sits.
C4_AdminForFirstOfId ==
  AfterParse =>
    /\ Len(parsedConfig.routes) = Len(RoutePositions)
    /\ \A k \in 1..Len(RoutePositions) :
         (\/ OwnAdmin(k)
          \/ /\ AdminTargeted(parsedConfig.routes[k].id)
             /\ FirstWithItsId(RoutePositions[k]))
           => parsedConfig.routes[k].adminRequired

\* the admin middleware node comes after the route it targets, by a one-id
\* target, and the route itself declares admin_required: false
C4_Witness ==
  /\ pc = "parsed"
  /\ \E k \in 1..Len(RoutePositions) :
       /\ Nodes[RoutePositions[k]].properties.admin_required = "false"
       /\ FirstWithItsId(RoutePositions[k])
       /\ parsedConfig.routes[k].adminRequired
       /\ \E m \in (RoutePositions[k] + 1)..Len(Nodes) :
            /\ IsAdminMiddleware(Nodes[m])
            /\ Nodes[m].target = TargetOne(parsedConfig.routes[k].id)

\* ---------------------------------------------------------------------- C9
\* C9: a route ends with adminRequired = true only if its own admin_required
\* was truthy or an admin middleware node lists its id directly in its target;
\* a route reached only through an intermediate node keeps its declared value.
C9_SingleHop ==
  AfterParse =>
    /\ Len(parsedConfig.routes) = Len(RoutePositions)
    /\ \A k \in 1..Len(RoutePositions) :
         parsedConfig.routes[k].adminRequired
           => (OwnAdmin(k) \/ AdminTargeted(parsedConfig.routes[k].id))

\* admin middleware -> intermediate node -> route: the route stays non-admin
C9_Witness ==
  /\ pc = "parsed"
  /\ \E k \in 1..Len(RoutePositions) :
       /\ ~parsedConfig.routes[k].adminRequired
       /\ \E m, n \in 1..Len(Nodes) :
            /\ IsAdminMiddleware(Nodes[m])
            /\ SeqContains(Nodes[m].target.ids, Nodes[n].id)
            /\ FirstWithItsId(n)
            /\ ~IsAdminMiddleware(Nodes[n])
            /\ SeqContains(Nodes[n].target.ids, parsedConfig.routes[k].id)

====
